---- MODULE Spec2Model ----
(***************************************************************************)
(* NR simulation telemetry monitor: the text front-end                     *)
(* (monitor_telemetry.py, TelemetryMonitor) and the graphical front-end    *)
(* (monitor_telemetry_gui.py, TelemetryReceiver thread + TelemetryGUI).    *)
(*                                                                         *)
(* Three specifications share the variables:                               *)
(*   SpecMonitor  TelemetryMonitor.run / process_packet / display_state    *)
(*   SpecGui      the receiver thread interleaved with TelemetryGUI        *)
(*                _refresh, at the granularity of single reads and writes  *)
(*   SpecResolve  the gNB index and the serving-gNB resolution of          *)
(*                _refresh as functions of one snapshot's topology         *)
(***************************************************************************)
EXTENDS Integers, Sequences, FiniteSets, TLC

VARIABLES
    \* ---- TelemetryMonitor (monitor_telemetry.py)
    mon_pc,          \* "bind" | "loop" | "stopped" | "returned" | "crashed"
    packets_received,\* stats['packets_received']
    packets_failed,  \* stats['packets_failed']
    last_update,     \* stats['last_update']; 0 is None, n is the clock at the update
    mon_clock,       \* datetime.now(), advanced by every step of the loop
    mon_alerts,      \* the alerts printed by the last process_packet
    mon_pkt,         \* the datagram handed to the last process_packet
    mon_event,       \* what the last step of the loop was
    \* ---- TelemetryReceiver (monitor_telemetry_gui.py)
    rx_pc,           \* "bind" | "recv" | "acquire" | "w_data" | "w_raw" | "dead"
    rx_count,        \* datagrams taken off the socket so far (their arrival number)
    rx_pkt,          \* the datagram of the iteration in progress (`data`)
    rx_event,        \* what the last step of the receiver was
    lock,            \* receiver.lock: "free" | "rx" | "gui"
    latest_data,     \* receiver.latest_data
    raw_message,     \* receiver.raw_message
    published,       \* arrival number of the last datagram wholly stored (0: none)
    \* ---- TelemetryGUI._refresh
    gui_pc,          \* "idle" | "check" | "r_data" | "r_raw" | "render" | "halted"
    gui_state,       \* local `state`
    gui_raw,         \* local `raw_msg`
    gui_read_at,     \* value of `published` when the refresh took the lock
    gui_prev_read,   \* arrival number of the snapshot the previous refresh read
    paused,          \* self.paused
    raw_text,        \* arrival number of the datagram shown in the raw inspector
    shown,           \* arrival number of the snapshot drawn on the map and table
    conns,           \* connection lines drawn by the last rendering
    refreshes,       \* completed executions of _refresh
    \* ---- index and resolution of one topology (SpecResolve)
    r_pc,            \* "input" | "done"
    r_gnbs,          \* topology.gnbs
    r_net,           \* the UE's network object
    r_map,           \* gnb_map after lines 203-212
    r_cand,          \* gnb_id after lines 235-241
    r_key,           \* gnb_id after lines 243-244
    r_pos            \* the end of the connection line, or Unresolved

monVars == <<mon_pc, packets_received, packets_failed, last_update, mon_clock,
             mon_alerts, mon_pkt, mon_event>>
rxVars  == <<rx_pc, rx_count, rx_pkt, rx_event, lock, latest_data, raw_message,
             published>>
guiVars == <<gui_pc, gui_state, gui_raw, gui_read_at, gui_prev_read, paused,
             raw_text, shown, conns, refreshes>>
resVars == <<r_pc, r_gnbs, r_net, r_map, r_cand, r_key, r_pos>>
vars    == <<monVars, rxVars, guiVars, resVars>>

-----------------------------------------------------------------------------
(* Bounds of the model.                                                    *)

MaxPackets == 3      \* datagrams one run of a front-end takes off the socket
MaxRefresh == 3      \* executions of _refresh in one run
MaxGnbs    == 3      \* entries of topology.gnbs in the longer lists of SpecResolve

-----------------------------------------------------------------------------
(* JSON scalars.  t is the JSON type; "absent" is a key that is not in the *)
(* object, "null" a key whose value is null (None after json.loads).       *)

Absent  == [t |-> "absent", n |-> 0, s |-> ""]
Null    == [t |-> "null",   n |-> 0, s |-> ""]
IntV(i) == [t |-> "int",    n |-> i, s |-> ""]
StrV(x) == [t |-> "str",    n |-> 0, s |-> x]

Digit == <<"0", "1", "2", "3", "4", "5", "6", "7", "8", "9">>

RECURSIVE IntToStr(_)
IntToStr(i) ==
    IF i < 0 THEN "-" \o IntToStr(0 - i)
    ELSE IF i < 10 THEN Digit[i + 1]
    ELSE IntToStr(i \div 10) \o Digit[(i % 10) + 1]

\* str(val) of a non-None identifier: the decimal text of a number, a string itself
Str(v) == IF v.t = "int" THEN StrV(IntToStr(v.n)) ELSE v

\* dict.get(key): None both for a missing key and for a null value
DictGet(v) == IF v.t = "absent" THEN Null ELSE v

IsNone(v) == v.t = "null"

\* Python truthiness of a scalar
Truthy(v) ==
    \/ v.t = "int" /\ v.n # 0
    \/ v.t = "str" /\ v.s # ""

-----------------------------------------------------------------------------
(* Snapshot objects.                                                       *)

\* ue['network']; present = FALSE is a UE without the key
NoNet == [present |-> FALSE, gnb_id |-> Absent, serving_gnb |-> Absent,
          cell_id |-> Absent, serving_cell_id |-> Absent]

Net(g, sg, c, sc) == [present |-> TRUE, gnb_id |-> g, serving_gnb |-> sg,
                      cell_id |-> c, serving_cell_id |-> sc]

\* one entry of topology.ues; loss values are percent
UE(i, net) == [id |-> i, net |-> net, velocity |-> FALSE, speed |-> Absent,
               mobility |-> Absent, dl_loss |-> Absent]

\* one entry of topology.gnbs; attached is attached_ues.count
GNB(i, c, g, pos, att) == [id |-> i, cell_id |-> c, gnb_id |-> g, pos |-> pos,
                           attached |-> att]

\* the position of the k-th gNB of a list: distinct gNBs stand at distinct places
PosOf(k) == <<100 * k, 50>>

\* a decoded JSON object.  timestamp: "absent" | "notime" (no simulation_time) | "ok";
\* topology: "absent" | "noues" (no ues key) | "ok"; loss is
\* traffic_summary.avg_packet_loss_percent in tenths of a percent (Absent: no
\* traffic_summary)
Snapshot(ts, sim, cfg, topo, ues, hasg, gnbs, loss) ==
    [timestamp |-> ts, simulation |-> sim, config |-> cfg, topology |-> topo,
     ues |-> ues, has_gnbs |-> hasg, gnbs |-> gnbs, loss |-> loss]

\* the JSON text "{}"
EmptyObj == Snapshot("absent", FALSE, FALSE, "absent", <<>>, FALSE, <<>>, Absent)

\* a datagram: bytes that are not UTF-8, text that is not JSON, or a JSON object
BadUtf8   == [kind |-> "badutf8", val |-> EmptyObj]
BadJson   == [kind |-> "badjson", val |-> EmptyObj]
Json(obj) == [kind |-> "json", val |-> obj]
NoPacket  == [kind |-> "none", val |-> EmptyObj]

\* a decoder that lets text through without parsing it
DecodeOkLenient(d) == d.kind \in {"json", "badjson"}

\* json.loads(data.decode('utf-8')) returns instead of raising
DecodeOk(d) == d.kind = "json"

-----------------------------------------------------------------------------
(* TelemetryMonitor.check_alerts and display_state.                        *)

HighLossPct     == 50
ElevatedLossPct == 30
SevereDlLossPct == 80
OverloadCount   == 8

Alert(kind, who) == [kind |-> kind, who |-> who]

\* lines 193-199: loss is in tenths of a percent, the thresholds in percent
LossAlerts(state) ==
    IF state.loss.t = "absent" THEN <<>>
    ELSE IF state.loss.n > HighLossPct * 10 THEN <<Alert("high_loss", Null)>>
    ELSE IF state.loss.n > ElevatedLossPct * 10 THEN <<Alert("elevated_loss", Null)>>
    ELSE <<>>

\* ue.get('speed', 0) and ue.get('mobility_model', '')
SpeedOf(ue)    == IF ue.speed.t = "absent" THEN IntV(0) ELSE ue.speed
MobilityOf(ue) == IF ue.mobility.t = "absent" THEN StrV("") ELSE ue.mobility

\* lines 204-217, for one UE
UeAlerts(ue) ==
    (IF ue.velocity /\ SpeedOf(ue) = IntV(0) /\ MobilityOf(ue) = StrV("waypoint")
        THEN <<Alert("not_moving", IntV(ue.id))>> ELSE <<>>)
    \o
    (IF ue.dl_loss.t = "int" /\ ue.dl_loss.n > SevereDlLossPct
        THEN <<Alert("severe_dl_loss", IntV(ue.id))>> ELSE <<>>)

RECURSIVE AllUeAlerts(_)
AllUeAlerts(ues) ==
    IF ues = <<>> THEN <<>> ELSE UeAlerts(Head(ues)) \o AllUeAlerts(Tail(ues))

\* lines 222-227, for one gNB whose attached_ues and cell_id are there
GnbAlerts(gnb) ==
    IF gnb.attached.n > OverloadCount THEN <<Alert("overloaded", gnb.cell_id)>>
    ELSE IF gnb.attached.n = 0 THEN <<Alert("no_ues", gnb.cell_id)>>
    ELSE <<>>

RECURSIVE AllGnbAlerts(_)
AllGnbAlerts(gnbs) ==
    IF gnbs = <<>> THEN <<>> ELSE GnbAlerts(Head(gnbs)) \o AllGnbAlerts(Tail(gnbs))

\* check_alerts raises KeyError: a gNB without attached_ues or without cell_id
CheckAlertsRaises(state) ==
    /\ state.topology # "absent"
    /\ state.has_gnbs
    /\ \E k \in 1..Len(state.gnbs) :
          \/ state.gnbs[k].attached.t = "absent"
          \/ state.gnbs[k].cell_id.t = "absent"

\* the alerts check_alerts prints when it does not raise
CheckAlerts(state) ==
    LossAlerts(state)
    \o (IF state.topology # "absent" THEN AllUeAlerts(state.ues) ELSE <<>>)
    \o (IF state.topology # "absent" /\ state.has_gnbs
           THEN AllGnbAlerts(state.gnbs) ELSE <<>>)

\* the row of one UE raises: ue['network']['cell_id'] is a KeyError without the
\* key, and a null cell_id is a TypeError in the format {cell_id:<6}
UeRowRaises(ue) ==
    /\ ue.net.present
    /\ ue.net.cell_id.t \in {"absent", "null"}

\* display_state raises instead of returning
DisplayRaises(state) ==
    \/ state.timestamp # "ok"                    \* line 77
    \/ ~state.simulation                         \* line 78
    \/ ~state.config                             \* lines 87-88
    \/ state.topology # "ok"                     \* line 96
    \/ \E k \in 1..Len(state.ues) : UeRowRaises(state.ues[k])
    \/ CheckAlertsRaises(state)                  \* line 182

-----------------------------------------------------------------------------
(* TelemetryMonitor.process_packet: the stats and the printed alerts after *)
(* datagram d, from the stats st before it; now is datetime.now().         *)

ProcessPacketEarlyCount(st, d, now) ==
    IF ~DecodeOk(d)
        THEN [received |-> st.received + 1, failed |-> st.failed + 1,
              last_update |-> now, alerts |-> <<>>]
    ELSE IF DisplayRaises(d.val)
        THEN [received |-> st.received + 1, failed |-> st.failed + 1,
              last_update |-> now, alerts |-> <<>>]
    ELSE [received |-> st.received + 1, failed |-> st.failed,
          last_update |-> now, alerts |-> CheckAlerts(d.val)]

ProcessPacketResult(st, d, now) ==
    IF ~DecodeOk(d)
        \* lines 68-73: JSONDecodeError, or UnicodeDecodeError as Exception
        THEN [received |-> st.received, failed |-> st.failed + 1,
              last_update |-> st.last_update, alerts |-> <<>>]
    ELSE IF DisplayRaises(d.val)
        \* lines 63-64 ran, then line 66 raised into lines 71-73
        THEN [received |-> st.received + 1, failed |-> st.failed + 1,
              last_update |-> now, alerts |-> <<>>]
    ELSE [received |-> st.received + 1, failed |-> st.failed,
          last_update |-> now, alerts |-> CheckAlerts(d.val)]

MonStats == [received |-> packets_received, failed |-> packets_failed,
             last_update |-> last_update, alerts |-> mon_alerts]

-----------------------------------------------------------------------------
(* The datagrams SpecMonitor feeds to the text front-end.                  *)

MaxMonUes == 1       \* entries of topology.ues in SpecMonitor

SeqsUpTo(S, n) == UNION { [1..k -> S] : k \in 0..n }

\* required fields present or missing, one plain UE
ReqSnaps ==
    { Snapshot(ts, sim, cfg, topo,
               IF topo = "ok" THEN <<UE(1, NoNet)>> ELSE <<>>, FALSE, <<>>, Absent) :
        ts \in {"absent", "notime", "ok"}, sim \in BOOLEAN, cfg \in BOOLEAN,
        topo \in {"absent", "noues", "ok"} }

MonNets ==
    { NoNet,
      Net(IntV(1), Absent, Absent, Absent),
      Net(Absent, Absent, IntV(1), Absent),
      Net(IntV(1), Absent, IntV(1), Absent),
      Net(Absent, Absent, Null, Absent) }

MonUeLists ==
    { [k \in 1..Len(nets) |-> UE(k, nets[k])] : nets \in SeqsUpTo(MonNets, MaxMonUes) }

MonGnbs ==
    { GNB(IntV(1), c, Absent, PosOf(1), a) :
        c \in {Absent, IntV(1)},
        a \in {Absent, IntV(0), IntV(1), IntV(OverloadCount), IntV(OverloadCount + 1)} }

MonLosses ==
    { Absent, IntV(ElevatedLossPct * 10), IntV(ElevatedLossPct * 10 + 1),
      IntV(HighLossPct * 10), IntV(HighLossPct * 10 + 1) }

\* all required fields present; the UEs' optional network object varies
UeSnaps ==
    { Snapshot("ok", TRUE, TRUE, "ok", ues, FALSE, <<>>, Absent) : ues \in MonUeLists }

\* one UE whose velocity object, speed and mobility_model are there or not
MobilityUes ==
    { [UE(1, NoNet) EXCEPT !.velocity = v, !.speed = s, !.mobility = m] :
        v \in BOOLEAN,
        s \in {Absent, IntV(0), IntV(3)},
        m \in {Absent, StrV("waypoint"), StrV("random_walk")} }

\* all required fields present; the UE's motion fields vary
MobilitySnaps ==
    { Snapshot("ok", TRUE, TRUE, "ok", <<u>>, FALSE, <<>>, Absent) : u \in MobilityUes }

\* all required fields present; topology.gnbs and traffic_summary vary
GnbSnaps ==
    { Snapshot("ok", TRUE, TRUE, "ok", <<UE(1, NoNet)>>, TRUE, gnbs, loss) :
        gnbs \in {<<>>} \cup { <<g>> : g \in MonGnbs }, loss \in MonLosses }

\* the end-to-end example: UE 1 with network {gnb_id}, one gNB with id and position
ExampleSnap ==
    Snapshot("ok", TRUE, TRUE, "ok", <<UE(1, Net(IntV(1), Absent, Absent, Absent))>>,
             TRUE, <<GNB(IntV(1), Absent, Absent, PosOf(1), Absent)>>, Absent)

MonitorPackets ==
    {BadUtf8, BadJson}
    \cup { Json(s) : s \in ReqSnaps \cup UeSnaps \cup MobilitySnaps \cup GnbSnaps
                                \cup {ExampleSnap} }

-----------------------------------------------------------------------------
(* TelemetryMonitor.run.                                                   *)

\* line 37 returns: the socket is bound
MonBindOk ==
    /\ mon_pc = "bind"
    /\ mon_pc' = "loop"
    /\ mon_event' = "bound"
    /\ UNCHANGED <<packets_received, packets_failed, last_update, mon_clock,
                   mon_alerts, mon_pkt>>
    /\ UNCHANGED <<rxVars, guiVars, resVars>>

\* line 37 raises OSError outside every try: traceback, exit status 1
MonBindFail ==
    /\ mon_pc = "bind"
    /\ mon_pc' = "crashed"
    /\ mon_event' = "bind_error"
    /\ UNCHANGED <<packets_received, packets_failed, last_update, mon_clock,
                   mon_alerts, mon_pkt>>
    /\ UNCHANGED <<rxVars, guiVars, resVars>>

\* lines 49-50: one datagram received and processed
MonPacket(d) ==
    /\ mon_pc = "loop"
    /\ mon_clock < MaxPackets
    /\ mon_clock' = mon_clock + 1
    /\ LET r == ProcessPacketResult(MonStats, d, mon_clock + 1) IN
          /\ packets_received' = r.received
          /\ packets_failed' = r.failed
          /\ last_update' = r.last_update
          /\ mon_alerts' = r.alerts
    /\ mon_pkt' = d
    /\ mon_event' = "packet"
    /\ UNCHANGED mon_pc
    /\ UNCHANGED <<rxVars, guiVars, resVars>>

\* line 49 raises: lines 55-57 count it, and run() returns
MonRecvError ==
    /\ mon_pc = "loop"
    /\ mon_clock < MaxPackets
    /\ mon_clock' = mon_clock + 1
    /\ packets_failed' = packets_failed + 1
    /\ mon_pc' = "returned"
    /\ mon_event' = "recv_error"
    /\ UNCHANGED <<packets_received, last_update, mon_alerts, mon_pkt>>
    /\ UNCHANGED <<rxVars, guiVars, resVars>>

\* Ctrl+C: lines 52-54 print the final statistics
MonInterrupt ==
    /\ mon_pc = "loop"
    /\ mon_pc' = "stopped"
    /\ mon_event' = "interrupt"
    /\ UNCHANGED <<packets_received, packets_failed, last_update, mon_clock,
                   mon_alerts, mon_pkt>>
    /\ UNCHANGED <<rxVars, guiVars, resVars>>

MonitorNext ==
    \/ MonBindOk
    \/ MonBindFail
    \/ \E d \in MonitorPackets : MonPacket(d)
    \/ MonRecvError
    \/ MonInterrupt

-----------------------------------------------------------------------------
(* The gNB index and the serving-gNB resolution of TelemetryGUI._refresh.  *)

\* gnb_map: a dict from identifiers to positions
EmptyMap == [k \in {} |-> <<0, 0>>]

MapPut(m, k, pos) == [x \in DOMAIN m \cup {k} |-> IF x = k THEN pos ELSE m[x]]

\* lines 209-212 for one key field: the value and its str() variant
AddFieldNoStr(m, v, pos) ==
    IF IsNone(DictGet(v)) THEN m ELSE MapPut(m, v, pos)

AddField(m, v, pos) ==
    IF IsNone(DictGet(v)) THEN m
    ELSE MapPut(MapPut(m, v, pos), Str(v), pos)

\* lines 206-212 for one gNB: 'id', then 'cell_id', then 'gnb_id'
AddGnb(m, gnb) ==
    AddField(AddField(AddField(m, gnb.id, gnb.pos), gnb.cell_id, gnb.pos),
             gnb.gnb_id, gnb.pos)

RECURSIVE AddGnbs(_, _)
AddGnbs(m, gnbs) ==
    IF gnbs = <<>> THEN m ELSE AddGnbs(AddGnb(m, Head(gnbs)), Tail(gnbs))

\* lines 203-212
BuildGnbMap(gnbs) == AddGnbs(EmptyMap, gnbs)

\* `a or b or c or d`: the chain the comment at line 234 warns against
CandidateByTruth(net) ==
    LET g  == DictGet(net.gnb_id)
        sg == DictGet(net.serving_gnb)
        c  == DictGet(net.cell_id)
        sc == DictGet(net.serving_cell_id)
    IN  IF Truthy(g) THEN g
        ELSE IF Truthy(sg) THEN sg
        ELSE IF Truthy(c) THEN c
        ELSE sc

\* lines 235-241; a UE without 'network' has net = {} (line 229)
Candidate(net) ==
    LET g  == DictGet(net.gnb_id)
        sg == DictGet(net.serving_gnb)
        c  == DictGet(net.cell_id)
        sc == DictGet(net.serving_cell_id)
    IN  IF ~IsNone(g) THEN g
        ELSE IF ~IsNone(sg) THEN sg
        ELSE IF ~IsNone(c) THEN c
        ELSE sc

\* lines 243-244
LookupKey(cand, m) ==
    IF cand \notin DOMAIN m /\ ~IsNone(cand) THEN Str(cand) ELSE cand

Unresolved == <<>>

PositionOfFirstGnb(key, m) ==
    IF ~IsNone(key) THEN PosOf(1) ELSE Unresolved

\* lines 247-248: the gNB end of the connection line, if one is drawn
PositionOf(key, m) ==
    IF ~IsNone(key) /\ key \in DOMAIN m THEN m[key] ELSE Unresolved

ResolveServingGnb(net, m) == PositionOf(LookupKey(Candidate(net), m), m)

\* lines 225-252: the connection lines of one rendering, in drawing order
RECURSIVE ConnectionLines(_, _)
ConnectionLines(ues, m) ==
    IF ues = <<>> THEN <<>>
    ELSE LET ue  == Head(ues)
             pos == ResolveServingGnb(ue.net, m)
         IN  (IF pos = Unresolved THEN <<>> ELSE <<[ue |-> ue.id, to |-> pos]>>)
             \o ConnectionLines(Tail(ues), m)

\* the rendering block of _refresh raises (KeyError) before line 299
RenderRaises(state) ==
    \/ state.timestamp = "absent"            \* line 169
    \/ ~state.simulation                     \* line 171
    \/ state.topology = "absent"             \* line 225

\* gnb_map of a snapshot: lines 203-205
SnapshotGnbMap(state) ==
    IF state.topology # "absent" /\ state.has_gnbs
        THEN BuildGnbMap(state.gnbs) ELSE EmptyMap

-----------------------------------------------------------------------------
(* TelemetryReceiver: the receiver thread.                                 *)

\* latest_data is None, or the decoded object of datagram number id
NoData == [some |-> FALSE, id |-> 0, val |-> EmptyObj]
Data(id, obj) == [some |-> TRUE, id |-> id, val |-> obj]

\* raw_message is "", or the text of datagram number id
NoRaw == [id |-> 0, val |-> EmptyObj]
Raw(id, obj) == [id |-> id, val |-> obj]

\* `with self.lock:` enters only when nobody holds the lock
CanAcquireAlways(l) == TRUE

CanAcquire(l) == l = "free"

\* the datagrams SpecGui feeds to the receiver
TwoCellSnap ==
    Snapshot("ok", TRUE, TRUE, "ok",
             <<UE(1, Net(Absent, Absent, StrV("0"), Absent)),
               UE(2, Net(IntV(0), Absent, IntV(1), Absent)),
               UE(3, NoNet)>>,
             TRUE,
             <<GNB(IntV(0), IntV(1), Absent, PosOf(1), Absent),
               GNB(StrV("1"), Absent, Absent, PosOf(2), Absent)>>,
             Absent)

GuiPackets ==
    { BadUtf8, BadJson,
      Json(EmptyObj),
      Json(ExampleSnap),
      Json(TwoCellSnap),
      Json(Snapshot("notime", TRUE, FALSE, "noues", <<>>, FALSE, <<>>, Absent)),
      Json(Snapshot("absent", TRUE, TRUE, "ok", <<UE(1, NoNet)>>, FALSE, <<>>, Absent)),
      Json(Snapshot("ok", TRUE, TRUE, "absent", <<>>, FALSE, <<>>, Absent)) }

\* line 40 returns
RxBindOk ==
    /\ rx_pc = "bind"
    /\ rx_pc' = "recv"
    /\ rx_event' = "bound"
    /\ UNCHANGED <<rx_count, rx_pkt, lock, latest_data, raw_message, published>>
    /\ UNCHANGED <<monVars, guiVars, resVars>>

\* line 40 raises in the thread: the thread ends, the GUI's main loop goes on
RxBindFail ==
    /\ rx_pc = "bind"
    /\ rx_pc' = "dead"
    /\ rx_event' = "bind_error"
    /\ UNCHANGED <<rx_count, rx_pkt, lock, latest_data, raw_message, published>>
    /\ UNCHANGED <<monVars, guiVars, resVars>>

\* lines 43-45, and lines 49-50 when decoding raises
RxRecv(d) ==
    /\ rx_pc = "recv"
    /\ rx_count < MaxPackets
    /\ rx_count' = rx_count + 1
    /\ rx_pkt' = d
    /\ IF DecodeOk(d)
          THEN rx_pc' = "acquire" /\ rx_event' = "decoded"
          ELSE rx_pc' = "recv" /\ rx_event' = "decode_error"
    /\ UNCHANGED <<lock, latest_data, raw_message, published>>
    /\ UNCHANGED <<monVars, guiVars, resVars>>

\* line 43 raises: lines 49-50 print it and the loop goes on
RxRecvError ==
    /\ rx_pc = "recv"
    /\ rx_event' = "recv_error"
    /\ UNCHANGED <<rx_pc, rx_count, rx_pkt, lock, latest_data, raw_message, published>>
    /\ UNCHANGED <<monVars, guiVars, resVars>>

\* line 46
RxAcquire ==
    /\ rx_pc = "acquire"
    /\ CanAcquire(lock)
    /\ lock' = "rx"
    /\ rx_pc' = "w_data"
    /\ rx_event' = "locked"
    /\ UNCHANGED <<rx_count, rx_pkt, latest_data, raw_message, published>>
    /\ UNCHANGED <<monVars, guiVars, resVars>>

\* line 47
RxWriteData ==
    /\ rx_pc = "w_data"
    /\ latest_data' = Data(rx_count, rx_pkt.val)
    /\ rx_pc' = "w_raw"
    /\ rx_event' = "stored_data"
    /\ UNCHANGED <<rx_count, rx_pkt, lock, raw_message, published>>
    /\ UNCHANGED <<monVars, guiVars, resVars>>

\* line 48, and the release of the lock at the end of the with block
RxWriteRaw ==
    /\ rx_pc = "w_raw"
    /\ raw_message' = Raw(rx_count, rx_pkt.val)
    /\ lock' = "free"
    /\ published' = rx_count
    /\ rx_pc' = "recv"
    /\ rx_event' = "published"
    /\ UNCHANGED <<rx_count, rx_pkt, latest_data>>
    /\ UNCHANGED <<monVars, guiVars, resVars>>

-----------------------------------------------------------------------------
(* TelemetryGUI._refresh.                                                  *)

\* `if self.receiver.latest_data:` -- None and the empty object are both falsy
DataTruthy(ld) == ld.some /\ ld.val # EmptyObj

\* lines 156-158: a timer callback starts and takes the lock
GuiAcquire ==
    /\ gui_pc = "idle"
    /\ refreshes < MaxRefresh
    /\ CanAcquire(lock)
    /\ lock' = "gui"
    /\ gui_prev_read' = IF gui_state.some THEN gui_state.id ELSE gui_prev_read
    /\ gui_state' = NoData
    /\ gui_raw' = NoRaw
    /\ gui_read_at' = published
    /\ gui_pc' = "check"
    /\ UNCHANGED <<paused, raw_text, shown, conns, refreshes>>
    /\ UNCHANGED <<rx_pc, rx_count, rx_pkt, rx_event, latest_data, raw_message, published>>
    /\ UNCHANGED <<monVars, resVars>>

\* line 159
GuiCheck ==
    /\ gui_pc = "check"
    /\ IF DataTruthy(latest_data)
          THEN gui_pc' = "r_data" /\ UNCHANGED lock
          ELSE gui_pc' = "render" /\ lock' = "free"
    /\ UNCHANGED <<gui_state, gui_raw, gui_read_at, gui_prev_read, paused, raw_text,
                   shown, conns, refreshes>>
    /\ UNCHANGED <<rx_pc, rx_count, rx_pkt, rx_event, latest_data, raw_message, published>>
    /\ UNCHANGED <<monVars, resVars>>

\* line 160
GuiReadData ==
    /\ gui_pc = "r_data"
    /\ gui_state' = latest_data
    /\ gui_pc' = "r_raw"
    /\ UNCHANGED <<gui_raw, gui_read_at, gui_prev_read, paused, raw_text, shown, conns,
                   refreshes>>
    /\ UNCHANGED <<rxVars, monVars, resVars>>

\* line 161, and the release of the lock
GuiReadRaw ==
    /\ gui_pc = "r_raw"
    /\ gui_raw' = raw_message
    /\ lock' = "free"
    /\ gui_pc' = "render"
    /\ UNCHANGED <<gui_state, gui_read_at, gui_prev_read, paused, raw_text, shown, conns,
                   refreshes>>
    /\ UNCHANGED <<rx_pc, rx_count, rx_pkt, rx_event, latest_data, raw_message, published>>
    /\ UNCHANGED <<monVars, resVars>>

\* lines 163-299: the inspector, the rendering, and the next timer (line 299), which
\* is not reached when the rendering raises
GuiRender ==
    /\ gui_pc = "render"
    /\ raw_text' = IF gui_raw.id # 0 /\ ~paused THEN gui_raw.id ELSE raw_text
    /\ IF gui_state.some /\ RenderRaises(gui_state.val)
          THEN /\ gui_pc' = "halted"
               /\ UNCHANGED <<shown, conns>>
          ELSE /\ gui_pc' = "idle"
               /\ IF gui_state.some
                     THEN /\ shown' = gui_state.id
                          /\ conns' = ConnectionLines(gui_state.val.ues,
                                                      SnapshotGnbMap(gui_state.val))
                     ELSE UNCHANGED <<shown, conns>>
    /\ refreshes' = refreshes + 1
    /\ UNCHANGED <<gui_state, gui_raw, gui_read_at, gui_prev_read, paused>>
    /\ UNCHANGED <<rxVars, monVars, resVars>>

\* the "Pause Live View" checkbox, between two callbacks of the Tk main loop
GuiTogglePause ==
    /\ gui_pc \in {"idle", "halted"}
    /\ paused' = ~paused
    /\ UNCHANGED <<gui_pc, gui_state, gui_raw, gui_read_at, gui_prev_read, raw_text,
                   shown, conns, refreshes>>
    /\ UNCHANGED <<rxVars, monVars, resVars>>

GuiNext ==
    \/ RxBindOk
    \/ RxBindFail
    \/ \E d \in GuiPackets : RxRecv(d)
    \/ RxRecvError
    \/ RxAcquire
    \/ RxWriteData
    \/ RxWriteRaw
    \/ GuiAcquire
    \/ GuiCheck
    \/ GuiReadData
    \/ GuiReadRaw
    \/ GuiRender
    \/ GuiTogglePause

-----------------------------------------------------------------------------
(* The index and the resolution on one topology.                           *)

\* the identifiers of the inputs: 0 (falsy in Python) and 1, as numbers and as text
Ids == {0, 1}

\* what an identifier field can hold
IdVals == {Absent, Null} \cup { IntV(i) : i \in Ids } \cup { Str(IntV(i)) : i \in Ids }

\* every network object over the four serving-cell fields, and no network object
AllNets == {NoNet} \cup { Net(g, sg, c, sc) : g \in IdVals, sg \in IdVals,
                                              c \in IdVals, sc \in IdVals }

\* one network object for each candidate there can be: none, or an identifier
CandidateNets ==
    {NoNet} \cup { Net(g, Absent, Absent, Absent) : g \in IdVals \ {Absent, Null} }

\* gNBs with every combination of id, cell_id and gnb_id
GnbShapes == { [id |-> i, cell_id |-> c, gnb_id |-> g] :
                 i \in IdVals, c \in IdVals, g \in IdVals }

\* gNBs with at most one of id, cell_id and gnb_id
OneFieldShapes ==
    { sh \in GnbShapes :
        Cardinality({ f \in {"id", "cell_id", "gnb_id"} : sh[f] # Absent }) <= 1 }

\* the gNBs of a list stand at PosOf(1), PosOf(2), ...
Placed(sh) ==
    [k \in 1..Len(sh) |-> GNB(sh[k].id, sh[k].cell_id, sh[k].gnb_id, PosOf(k), Absent)]

\* every topology of at most two gNBs
AllGnbPairs ==
    {<<>>} \cup { Placed(<<a>>) : a \in GnbShapes }
           \cup { Placed(<<a, b>>) : a \in GnbShapes, b \in GnbShapes }

\* longer topologies, of gNBs with one identifier field each
OneFieldGnbLists == { Placed(sh) : sh \in SeqsUpTo(OneFieldShapes, MaxGnbs) }

\* no gNB, or one gNB that carries only 'id'
OneIdGnbLists ==
    {<<>>} \cup { <<GNB(i, Absent, Absent, PosOf(1), Absent)>> : i \in IdVals }

ResolveStep ==
    /\ r_pc = "input"
    /\ r_pc' = "done"
    /\ r_map' = BuildGnbMap(r_gnbs)
    /\ r_cand' = Candidate(r_net)
    /\ r_key' = LookupKey(Candidate(r_net), BuildGnbMap(r_gnbs))
    /\ r_pos' = ResolveServingGnb(r_net, BuildGnbMap(r_gnbs))
    /\ UNCHANGED <<r_gnbs, r_net>>
    /\ UNCHANGED <<monVars, rxVars, guiVars>>

ResolveNext == ResolveStep

-----------------------------------------------------------------------------
(* Initial states and specifications.                                      *)

InitMonitor ==
    /\ mon_pc = "bind"
    /\ packets_received = 0
    /\ packets_failed = 0
    /\ last_update = 0
    /\ mon_clock = 0
    /\ mon_alerts = <<>>
    /\ mon_pkt = NoPacket
    /\ mon_event = "none"

InitGui ==
    /\ rx_pc = "bind"
    /\ rx_count = 0
    /\ rx_pkt = NoPacket
    /\ rx_event = "none"
    /\ lock = "free"
    /\ latest_data = NoData
    /\ raw_message = NoRaw
    /\ published = 0
    /\ gui_pc = "idle"
    /\ gui_state = NoData
    /\ gui_raw = NoRaw
    /\ gui_read_at = 0
    /\ gui_prev_read = 0
    /\ paused = FALSE
    /\ raw_text = 0
    /\ shown = 0
    /\ conns = <<>>
    /\ refreshes = 0

InitResolveIdle ==
    /\ r_pc = "done"
    /\ r_gnbs = <<>>
    /\ r_net = NoNet
    /\ r_map = EmptyMap
    /\ r_cand = Null
    /\ r_key = Null
    /\ r_pos = Unresolved

InitResolve ==
    /\ InitMonitor
    /\ InitGui
    /\ r_pc = "input"
    /\ \/ r_gnbs \in OneIdGnbLists /\ r_net \in AllNets
       \/ r_gnbs \in AllGnbPairs \cup OneFieldGnbLists /\ r_net \in CandidateNets
    /\ r_map = EmptyMap
    /\ r_cand = Null
    /\ r_key = Null
    /\ r_pos = Unresolved

Init == InitMonitor /\ InitGui /\ InitResolveIdle

SpecMonitor == Init /\ [][MonitorNext]_vars

SpecGui == Init /\ [][GuiNext]_vars

SpecResolve == InitResolve /\ [][ResolveNext]_vars

-----------------------------------------------------------------------------
(* Vocabulary of the properties.                                           *)

\* the snapshot carries every required field
HasRequired(state) ==
    /\ state.timestamp = "ok"
    /\ state.simulation
    /\ state.config
    /\ state.topology = "ok"

\* the snapshot exceeds none of the alert thresholds
NoThresholdExceeded(state) ==
    /\ state.loss.t = "int" => state.loss.n <= ElevatedLossPct * 10
    /\ \A k \in 1..Len(state.ues) :
          /\ ~(state.ues[k].speed = IntV(0) /\ state.ues[k].mobility = StrV("waypoint"))
          /\ state.ues[k].dl_loss.t = "int" => state.ues[k].dl_loss.n <= SevereDlLossPct
    /\ \A k \in 1..Len(state.gnbs) :
          state.gnbs[k].attached.t = "int" =>
              /\ state.gnbs[k].attached.n # 0
              /\ state.gnbs[k].attached.n <= OverloadCount

\* this step is one execution of process_packet
IsProcessPacket == mon_event' = "packet" /\ mon_clock' = mon_clock + 1

\* this step takes one datagram off the receiver's socket
IsRxDatagram == rx_count' = rx_count + 1

Undecodable(d) == d.kind \in {"badutf8", "badjson"}

\* a field that is there and is not null
Present(v) == v.t \notin {"absent", "null"}

ChainFields == <<"gnb_id", "serving_gnb", "cell_id", "serving_cell_id">>

KeyFields == {"id", "cell_id", "gnb_id"}

\* the same identifier, whatever the encoding
SameId(a, b) == Str(a) = Str(b)

\* the gNBs of r_gnbs that expose key k, as a value or as the text of a value
Exposers(k) ==
    { i \in 1..Len(r_gnbs) :
        \E f \in KeyFields :
            /\ Present(r_gnbs[i][f])
            /\ r_gnbs[i][f] = k \/ Str(r_gnbs[i][f]) = k }

Last(S) == CHOOSE i \in S : \A j \in S : j <= i

-----------------------------------------------------------------------------
(* C1: a datagram whose snapshot has every required field, whatever        *)
(* optional fields are absent, makes process_packet add exactly 1 to       *)
(* packets_received, leave packets_failed alone, and print no alert when   *)
(* no threshold is exceeded.                                               *)
C1_CompleteSnapshotCounted ==
    [][ (IsProcessPacket /\ mon_pkt'.kind = "json" /\ HasRequired(mon_pkt'.val))
        => /\ packets_received' = packets_received + 1
           /\ packets_failed' = packets_failed
           /\ NoThresholdExceeded(mon_pkt'.val) => mon_alerts' = <<>> ]_vars

(* C2: a datagram that is not UTF-8 or not JSON makes process_packet add   *)
(* exactly 1 to packets_failed and leave packets_received and last_update  *)
(* alone, whatever was processed before.                                   *)
C2_UndecodableCountedAsFailure ==
    [][ (IsProcessPacket /\ Undecodable(mon_pkt'))
        => /\ packets_failed' = packets_failed + 1
           /\ packets_received' = packets_received
           /\ last_update' = last_update ]_vars

\* an undecodable datagram was processed after a snapshot had been counted
C2_Witness ==
    /\ mon_event = "packet"
    /\ mon_pkt = BadUtf8
    /\ packets_received = 1
    /\ packets_failed = 2
    /\ last_update > 0

(* C3: a datagram that fails to decode in TelemetryReceiver.run leaves     *)
(* latest_data and raw_message exactly as they were, empty if nothing had  *)
(* been published, and the receiver goes back to receiving without         *)
(* entering the publishing block.                                          *)
C3_DecodeFailureKeepsStore ==
    [][ (IsRxDatagram /\ Undecodable(rx_pkt'))
        => /\ latest_data' = latest_data
           /\ raw_message' = raw_message
           /\ rx_pc' = "recv" ]_vars

\* a decode failure after a snapshot had been published
C3_Witness ==
    /\ rx_event = "decode_error"
    /\ Undecodable(rx_pkt)
    /\ latest_data.some
    /\ latest_data.id < rx_count
    /\ raw_message.id = latest_data.id

(* C4: a datagram that is valid JSON but lacks a required field is treated *)
(* like a malformed one: it is never published as the latest snapshot, the *)
(* failure counter goes up by exactly 1 and the received counter does not  *)
(* change.                                                                 *)
C4_MissingFieldTreatedAsMalformed ==
    [][ /\ (IsProcessPacket /\ mon_pkt'.kind = "json" /\ ~HasRequired(mon_pkt'.val))
           => /\ packets_failed' = packets_failed + 1
              /\ packets_received' = packets_received
        /\ (latest_data' # latest_data) => HasRequired(latest_data'.val) ]_vars

(* C5: when the receive call raises, the producer counts one failure and   *)
(* the receive loop is still running, so that a later datagram is          *)
(* processed.                                                              *)
C5_RecvErrorKeepsLoop ==
    [][ (mon_event' = "recv_error" /\ mon_clock' = mon_clock + 1)
        => /\ packets_failed' = packets_failed + 1
           /\ mon_pc' = "loop" ]_vars

(* C6: what a refresh reads is the most recently published datagram at the *)
(* moment of the read, nothing only if none has been published, and never  *)
(* one published before a value an earlier refresh read.                   *)
C6_ReadIsLatestPublished ==
    gui_pc = "render" =>
        /\ (IF gui_state.some THEN gui_state.id ELSE 0) = gui_read_at
        /\ gui_state.some => gui_state.id >= gui_prev_read

(* C7: the snapshot and the raw text one refresh obtains come from the     *)
(* same datagram, in every interleaving with the receiver's publish; and   *)
(* outside the receiver's publishing block the store holds the two halves  *)
(* of one datagram.                                                        *)
C7_ReadIsNotTorn ==
    /\ gui_pc = "render" =>
          IF gui_state.some
             THEN gui_raw = Raw(gui_state.id, gui_state.val)
             ELSE gui_raw = NoRaw
    /\ lock # "rx" => raw_message = Raw(latest_data.id, latest_data.val)

\* a refresh has read the second datagram while the receiver waits with a third
C7_Witness ==
    /\ gui_pc = "render"
    /\ gui_state.some
    /\ gui_state.id = 2
    /\ rx_pc = "acquire"
    /\ rx_count = 3

(* C8: the candidate is the first of network.gnb_id, serving_gnb, cell_id, *)
(* serving_cell_id that is present and not null; 0 counts as present, so a *)
(* UE with gnb_id = 0 is looked up with 0 (or its text), never with a      *)
(* later field.                                                            *)
C8_CandidateIsFirstPresent ==
    r_pc = "done" =>
        /\ \A i \in 1..4 :
              ( /\ Present(r_net[ChainFields[i]])
                /\ \A j \in 1..(i - 1) : ~Present(r_net[ChainFields[j]]) )
              => r_cand = r_net[ChainFields[i]]
        /\ (\A i \in 1..4 : ~Present(r_net[ChainFields[i]])) => IsNone(r_cand)
        /\ r_key \in {r_cand, Str(r_cand)}
        /\ r_net.gnb_id = IntV(0) => r_cand = IntV(0) /\ r_key \in {IntV(0), StrV("0")}

\* gnb_id = 0 beside another cell_id, resolved to the gNB whose id is 0
C8_Witness ==
    /\ r_pc = "done"
    /\ r_net.gnb_id = IntV(0)
    /\ r_net.cell_id = IntV(1)
    /\ r_key = IntV(0)
    /\ r_pos = PosOf(1)

\* no two gNBs carry the same identifier under the same field
UniquePerField(gnbs) ==
    \A i \in 1..Len(gnbs) : \A j \in (i + 1)..Len(gnbs) : \A f \in KeyFields :
        (Present(gnbs[i][f]) /\ Present(gnbs[j][f])) => ~SameId(gnbs[i][f], gnbs[j][f])

(* C9, as stated: for every gNB that exposes X under id, cell_id or        *)
(* gnb_id, the index maps X and the text of X to that gNB's position, and  *)
(* a UE whose candidate is X in either encoding is resolved.  Stated here  *)
(* for the topologies in which each of id, cell_id and gnb_id is unique    *)
(* among the gNBs, which is all the data model promises.                   *)
C9_IndexMapsToOwnPosition ==
    (r_pc = "done" /\ UniquePerField(r_gnbs)) =>
        \A i \in 1..Len(r_gnbs) : \A f \in KeyFields :
            LET x == r_gnbs[i][f] IN
            Present(x) =>
                /\ x \in DOMAIN r_map /\ r_map[x] = r_gnbs[i].pos
                /\ Str(x) \in DOMAIN r_map /\ r_map[Str(x)] = r_gnbs[i].pos
                /\ (Present(r_cand) /\ SameId(r_cand, x)) => r_pos # Unresolved

(* C9, amended: the index holds X and the text of X as keys, each mapped   *)
(* to the position of the last gNB of topology.gnbs that exposes that key  *)
(* (that gNB's own position when no later gNB exposes it), and a UE whose  *)
(* candidate is X in either encoding is resolved to the position the index *)
(* holds.                                                                  *)
C9_IndexMapsToLastExposer ==
    r_pc = "done" =>
        \A i \in 1..Len(r_gnbs) : \A f \in KeyFields :
            LET x == r_gnbs[i][f] IN
            Present(x) =>
                /\ \A k \in {x, Str(x)} :
                      /\ k \in DOMAIN r_map
                      /\ i \in Exposers(k)
                      /\ r_map[k] = r_gnbs[Last(Exposers(k))].pos
                      /\ (\A j \in Exposers(k) : j <= i) => r_map[k] = r_gnbs[i].pos
                /\ (Present(r_cand) /\ SameId(r_cand, x)) =>
                      /\ r_pos # Unresolved
                      /\ r_pos = r_map[r_key]

\* a gNB known by the text "1" alone, and a UE that names it by the number 1
C9_Witness ==
    /\ r_pc = "done"
    /\ Len(r_gnbs) = 2
    /\ r_gnbs[2].id = StrV("1")
    /\ r_gnbs[2].cell_id = Absent
    /\ r_gnbs[2].gnb_id = Absent
    /\ Exposers(StrV("1")) = {2}
    /\ r_cand = IntV(1)
    /\ r_pos = PosOf(2)

(* C10, as stated: a UE gets a position only when its candidate or the     *)
(* candidate's text is a key of the index, and the position is that of a   *)
(* gNB one of whose id, cell_id, gnb_id equals the candidate; otherwise it *)
(* is unresolved.                                                          *)
C10_ResolvedFieldEqualsCandidate ==
    r_pc = "done" =>
        /\ r_pos # Unresolved =>
              /\ Present(r_cand)
              /\ r_cand \in DOMAIN r_map \/ Str(r_cand) \in DOMAIN r_map
              /\ \E i \in 1..Len(r_gnbs) : \E f \in KeyFields :
                    r_gnbs[i].pos = r_pos /\ r_gnbs[i][f] = r_cand
        /\ ( \/ ~Present(r_cand)
             \/ (r_cand \notin DOMAIN r_map /\ Str(r_cand) \notin DOMAIN r_map) )
           => r_pos = Unresolved

(* C10, amended: as stated, except that the field of the gNB equals the    *)
(* candidate or has the same text form as the candidate.                   *)
C10_ResolvedFieldMatchesCandidate ==
    r_pc = "done" =>
        /\ r_pos # Unresolved =>
              /\ Present(r_cand)
              /\ r_cand \in DOMAIN r_map \/ Str(r_cand) \in DOMAIN r_map
              /\ \E i \in 1..Len(r_gnbs) : \E f \in KeyFields :
                    /\ r_gnbs[i].pos = r_pos
                    /\ Present(r_gnbs[i][f])
                    /\ SameId(r_gnbs[i][f], r_cand)
        /\ ( \/ ~Present(r_cand)
             \/ (r_cand \notin DOMAIN r_map /\ Str(r_cand) \notin DOMAIN r_map) )
           => r_pos = Unresolved

\* a candidate found only through its text form, beside a gNB that does not match
C10_Witness ==
    /\ r_pc = "done"
    /\ Len(r_gnbs) = 2
    /\ r_cand = IntV(0)
    /\ r_key = StrV("0")
    /\ r_pos = PosOf(2)

-----------------------------------------------------------------------------
\* how many of the printed alerts are of one kind
CountKind(alerts, kind) ==
    Cardinality({ k \in 1..Len(alerts) : alerts[k].kind = kind })

\* the average packet loss of the snapshot, in tenths of a percent, is above pct
LossAbove(state, pct) == state.loss.t = "int" /\ state.loss.n > pct * 10

(* C11: for every snapshot with its required fields, process_packet's call  *)
(* of check_alerts prints exactly one high packet-loss alert if and only if *)
(* the average loss is above 50, exactly one elevated alert if and only if  *)
(* it is above 30 and not above 50, and neither when it is at most 30.      *)
C11_LossAlertsByThreshold ==
    [][ (IsProcessPacket /\ mon_pkt'.kind = "json" /\ HasRequired(mon_pkt'.val))
        => LET state == mon_pkt'.val
               high  == CountKind(mon_alerts', "high_loss")
               elev  == CountKind(mon_alerts', "elevated_loss")
           IN  /\ high = (IF LossAbove(state, HighLossPct) THEN 1 ELSE 0)
               /\ elev = (IF /\ LossAbove(state, ElevatedLossPct)
                             /\ ~LossAbove(state, HighLossPct) THEN 1 ELSE 0) ]_vars

(* The same rule for the snapshots on which check_alerts returns: the      *)
(* thresholds themselves are strict, and a loss of exactly 50 prints the   *)
(* elevated alert only.                                                    *)
LossAlertsWhenDisplayed ==
    [][ (IsProcessPacket /\ mon_pkt'.kind = "json" /\ ~DisplayRaises(mon_pkt'.val))
        => LET state == mon_pkt'.val
               high  == CountKind(mon_alerts', "high_loss")
               elev  == CountKind(mon_alerts', "elevated_loss")
           IN  /\ high = (IF LossAbove(state, HighLossPct) THEN 1 ELSE 0)
               /\ elev = (IF /\ LossAbove(state, ElevatedLossPct)
                             /\ ~LossAbove(state, HighLossPct) THEN 1 ELSE 0) ]_vars

-----------------------------------------------------------------------------
\* the printed alerts hold the not-moving alert of this UE
NotMovingAlerted(alerts, ue) ==
    \E k \in 1..Len(alerts) : alerts[k] = Alert("not_moving", IntV(ue.id))

(* C12: on every snapshot that display_state and check_alerts get through, *)
(* the not-moving alert of a UE is printed exactly when the UE's speed is  *)
(* present and equal to 0 and its mobility model is waypoint: an absent     *)
(* speed is not taken for 0, and no other field of the UE matters.         *)
C12_StationaryAlertRule ==
    [][ (IsProcessPacket /\ mon_pkt'.kind = "json" /\ ~DisplayRaises(mon_pkt'.val))
        => \A k \in 1..Len(mon_pkt'.val.ues) :
              LET ue == mon_pkt'.val.ues[k] IN
                 NotMovingAlerted(mon_alerts', ue)
                    <=> (ue.speed = IntV(0) /\ ue.mobility = StrV("waypoint")) ]_vars

(* The rule the code implements: the velocity object is there, the speed    *)
(* is 0 or absent, and the mobility model is waypoint.                     *)
StationaryAlertAsCoded ==
    [][ (IsProcessPacket /\ mon_pkt'.kind = "json" /\ ~DisplayRaises(mon_pkt'.val))
        => \A k \in 1..Len(mon_pkt'.val.ues) :
              LET ue == mon_pkt'.val.ues[k] IN
                 NotMovingAlerted(mon_alerts', ue)
                    <=> /\ ue.velocity
                        /\ ue.speed \in {Absent, IntV(0)}
                        /\ ue.mobility = StrV("waypoint") ]_vars

\* the alert was printed for a UE that has no speed field
C12_AbsentSpeedAlerted ==
    /\ mon_event = "packet"
    /\ mon_pkt.kind = "json"
    /\ Len(mon_pkt.val.ues) = 1
    /\ mon_pkt.val.ues[1].speed = Absent
    /\ NotMovingAlerted(mon_alerts, mon_pkt.val.ues[1])

-----------------------------------------------------------------------------
(* C13: once binding the socket has failed, the front-end does nothing     *)
(* more: the text monitor takes no further step, and the dashboard neither *)
(* receives nor refreshes, so neither is left running without a listener.  *)
C13_BindFailureIsFatal ==
    [][ /\ mon_pc = "crashed" => UNCHANGED monVars
        /\ rx_pc = "dead" => UNCHANGED <<rxVars, guiVars>> ]_vars

(* The text monitor alone: a failed bind ends run() before the loop, and   *)
(* nothing is received or counted afterwards.                              *)
MonitorBindFailureIsFatal ==
    [][ /\ mon_event' = "bind_error" => mon_pc' = "crashed"
        /\ mon_pc = "crashed" => UNCHANGED monVars ]_vars

\* the dashboard completed a refresh although its receiver never bound
C13_RefreshWithoutListener ==
    /\ rx_pc = "dead"
    /\ rx_event = "bind_error"
    /\ refreshes > 0
    /\ gui_pc = "idle"

(* C14: every execution of _refresh, whatever the receiver has published,  *)
(* ends with the next refresh scheduled: the consumer is idle again,       *)
(* waiting for its timer.                                                  *)
C14_RefreshAlwaysRescheduled ==
    [][ refreshes' = refreshes + 1 => gui_pc' = "idle" ]_vars

(* The refreshes that do reschedule: nothing was read, or the snapshot     *)
(* read has timestamp, simulation and topology.                            *)
RefreshRescheduledUnlessRenderRaises ==
    [][ (refreshes' = refreshes + 1 /\ ~(gui_state.some /\ RenderRaises(gui_state.val)))
        => gui_pc' = "idle" ]_vars

\* polling has stopped while a later snapshot is published and never rendered
C14_PublishedNeverRendered ==
    /\ gui_pc = "halted"
    /\ published > gui_state.id
    /\ latest_data.some
    /\ ~RenderRaises(latest_data.val)

====
